---- MODULE Spec2Model ----
(***************************************************************************)
(* PulseReader: the RSVP overlay (RSVPOverlay component) and the part of   *)
(* the Reader that hosts it.  The overlay is a React function component    *)
(* that stays mounted while the Reader is; its state hooks, refs and       *)
(* effects are modelled as one state machine.  One action is one event     *)
(* handler (or timer callback) together with the re-render and the effects *)
(* React runs because of it.                                               *)
(***************************************************************************)
EXTENDS Integers, Sequences, FiniteSets, TLC

(***************************************************************************)
(* Bounds and program constants                                            *)
(***************************************************************************)
LongLen == 12          \* readable text nodes on the long page of the book
MaxTextLen == 4        \* longest text node given to the range edge handling
MaxWordLen == 3        \* longest split-off word given to the cleaning
MaxWpmSteps == 1       \* WPM steps explored above the initial rate

SkipN == 10            \* words skipped by skipBack / skipForward
WpmStep == 50          \* step of increaseWpm / decreaseWpm
WpmMin == 100          \* floor of decreaseWpm
WpmMax == 1000         \* ceiling of increaseWpm
DefaultWpm == 300      \* wpm prop default
TrainingWpmMax == 1500 \* highest rate the product specification allows
TrainingStep == 10     \* WPM the settings hint promises every 10 seconds
SliderStep == 25       \* step of the Reading Speed slider
NoStop == -1           \* imageStopIndex when no image stop is recorded

NoRef == [node |-> <<0, 0, 0>>, word |-> <<0, 0, 0>>]   \* null / undefined ref
NoProbe == [fn |-> "none"]

Min(a, b) == IF a < b THEN a ELSE b
Max(a, b) == IF a > b THEN a ELSE b

(***************************************************************************)
(* Text handling of extractText.  A text is a sequence of characters.      *)
(***************************************************************************)
\* \w of the cleaning regexp
WordChars ==
  {"a", "b", "c", "d", "e", "f", "g", "h", "i", "j", "k", "l", "m", "n", "o",
   "p", "q", "r", "s", "t", "u", "v", "w", "x", "y", "z",
   "A", "B", "C", "D", "E", "F", "G", "H", "I", "J", "K", "L", "M", "N", "O",
   "P", "Q", "R", "S", "T", "U", "V", "W", "X", "Y", "Z",
   "0", "1", "2", "3", "4", "5", "6", "7", "8", "9", "_"}

\* \s of the cleaning regexp
SpaceChars == {" "}

\* . , ! ? ; : ' " ( ) and the dashes and smart quotes of the regexp
PunctChars ==
  {".", ",", "!", "?", ";", ":", "'", "(", ")", "-", "dquote", "emdash",
   "endash", "rsquo", "lsquo"}

cleanWord_keepsAll(w) == w

\* w.replace(/[^\w\s.,!?;:'"()...]/g, '')
cleanWord(w) ==
  SelectSeq(w, LAMBDA ch : ch \in WordChars \cup SpaceChars \cup PunctChars)

\* the words a split-off word w adds to wordList
pushWord(w) == IF Len(cleanWord(w)) > 0 THEN <<cleanWord(w)>> ELSE <<>>

\* String.prototype.substring(a, b)
substring(t, a, b) ==
  LET x == Min(Max(a, 0), Len(t))
      y == Min(Max(b, 0), Len(t))
  IN SubSeq(t, Min(x, y) + 1, Max(x, y))

partialText_startFirst(text, isEnd, endOffset, isStart, startOffset) ==
  LET t1 == IF isStart THEN substring(text, startOffset, Len(text)) ELSE text
  IN IF isEnd THEN substring(t1, 0, endOffset) ELSE t1

\* The text a text node of the range walk contributes before trimming:
\* cut at the end offset when it is the range's end container, then at the
\* start offset when it is the start container.
partialText(text, isEnd, endOffset, isStart, startOffset) ==
  LET t1 == IF isEnd THEN substring(text, 0, endOffset) ELSE text
  IN IF isStart THEN substring(t1, startOffset, Len(t1)) ELSE t1

(***************************************************************************)
(* The rendered book.  A page is what rendition.getContents() and          *)
(* rendition.currentLocation() give while that page is displayed:          *)
(*   contents : the rendered section documents, each the sequence of its   *)
(*              nodes in document order (script/style subtrees left out);  *)
(*   flow     : rendition.settings.flow;                                   *)
(*   range    : <<lo, hi>>, the nodes of contents[1] the CFI range of the  *)
(*              visible page intersects, or <<>> when there is no usable   *)
(*              range (see rangeFault);                                    *)
(*   vis      : nodes <<c, i>> whose box is inside the viewport (scrolled);*)
(*   throwsAt : the content whose access throws during the scan, or 0;     *)
(*   rangeFault : why the CFI range cannot be used: "noCfi" (the location  *)
(*              has no start or end CFI), "unresolved" (getRange gives no  *)
(*              range), "crossDocument" (the two ranges are in different   *)
(*              documents), "throws" (an exception while the range is      *)
(*              built), or "none".                                         *)
(* A text node carries one token, text being its characters; clean = FALSE *)
(* is a node whose text is blank or is emptied by the cleaning regexp.     *)
(***************************************************************************)
Word(t) == [tag |-> "text", clean |-> TRUE, text |-> t]
Txt == Word(<<"c", "a", "t">>)
Blank == [tag |-> "text", clean |-> FALSE, text |-> <<" ">>]
Img == [tag |-> "img"]

Rep(n, x) == [i \in 1..n |-> x]

Book ==
  << [flow |-> "paginated", contents |-> << Rep(LongLen, Txt) \o <<Txt, Txt>> >>,
      range |-> <<1, LongLen>>, vis |-> {}, throwsAt |-> 0,
      rangeFault |-> "none"],
     [flow |-> "paginated", contents |-> << <<Txt, Blank, Txt, Txt, Img, Txt>> >>,
      range |-> <<1, 6>>, vis |-> {}, throwsAt |-> 0,
      rangeFault |-> "none"],
     [flow |-> "paginated", contents |-> << <<Img, Blank>> >>,
      range |-> <<1, 2>>, vis |-> {}, throwsAt |-> 0,
      rangeFault |-> "none"],
     [flow |-> "paginated",
      contents |-> << <<Word(<<"H", "e", "l", "l", "o", ".">>)>> >>,
      range |-> <<>>, vis |-> {}, throwsAt |-> 0,
      rangeFault |-> "unresolved"],
     [flow |-> "paginated", contents |-> << <<Txt, Img, Txt>>, <<Txt, Txt>> >>,
      range |-> <<>>, vis |-> {}, throwsAt |-> 0,
      rangeFault |-> "crossDocument"],
     [flow |-> "paginated", contents |-> << <<Txt, Txt>>, <<Txt>> >>,
      range |-> <<>>, vis |-> {}, throwsAt |-> 2,
      rangeFault |-> "throws"],
     [flow |-> "paginated", contents |-> << >>,
      range |-> <<>>, vis |-> {}, throwsAt |-> 0,
      rangeFault |-> "noCfi"],
     [flow |-> "scrolled",
      contents |-> << <<Txt, Txt, Word(<<"w", "o", "n", "d", "e", "r", "f", "u", "l">>),
                        Word(<<"y", "e", "s", ",">>), Txt, Txt, Img, Txt>> >>,
      range |-> <<>>, vis |-> {<<1, i>> : i \in 2..6}, throwsAt |-> 0,
      rangeFault |-> "noCfi"],
     [flow |-> "paginated", contents |-> << <<Txt, Img, Blank>> >>,
      range |-> <<2, 3>>, vis |-> {}, throwsAt |-> 0,
      rangeFault |-> "none"] >>

\* The Reader turns through pages 1..NumPages.  The last three entries of
\* Book are pages met by opening a book on them: a location without CFIs in
\* a rendition with no contents, a page of a book read in scrolled flow, and
\* a page of an illustrated book (the section 'cat <img>' with only the
\* image on the visible page).
NumPages == Len(Book) - 3

\* The text of the word extracted from node w = <<page, content, node>>.
WordText(w) == Book[w[1]].contents[w[2]][w[3]].text

(***************************************************************************)
(* extractText: the two tree walks                                         *)
(***************************************************************************)
EmptyAcc == [wordList |-> <<>>, refs |-> <<>>, hitImage |-> FALSE,
             imageStopIdx |-> NoStop, thrown |-> FALSE]

\* One walker loop over nodes i..last of content c of page p.  scope is the
\* set of node indices that count as in range / in the viewport.  The loop
\* stops at the first in-scope image, recording the length reached.
RECURSIVE WalkNodes(_, _, _, _, _, _)
WalkNodes(p, c, i, last, scope, acc) ==
  IF i > last THEN acc
  ELSE LET n == Book[p].contents[c][i] IN
       IF n.tag = "img" /\ i \in scope
       THEN [acc EXCEPT !.hitImage = TRUE, !.imageStopIdx = Len(acc.wordList)]
       ELSE IF n.tag = "text" /\ i \in scope /\ n.clean
       THEN WalkNodes(p, c, i + 1, last, scope,
                      [acc EXCEPT !.wordList = Append(@, <<p, c, i>>),
                                  !.refs = Append(@, [node |-> <<p, c, i>>,
                                                      word |-> <<p, c, i>>])])
       ELSE WalkNodes(p, c, i + 1, last, scope, acc)

\* Paginated mode with a resolvable range: only the nodes the range intersects.
CfiWalk(p) ==
  IF Book[p].flow # "scrolled" /\ Book[p].rangeFault = "none"
  THEN WalkNodes(p, 1, Book[p].range[1], Book[p].range[2],
                 Book[p].range[1]..Book[p].range[2], EmptyAcc)
  ELSE EmptyAcc

\* Nodes of content c that the viewport scan treats as visible.
ViewportScope(p, c) ==
  IF Book[p].flow # "scrolled"
  THEN 1..Len(Book[p].contents[c])
  ELSE {i \in 1..Len(Book[p].contents[c]) : <<c, i>> \in Book[p].vis}

\* The fallback scan: every content in turn; an image ends the walk of its
\* own content only.
RECURSIVE ScanContents(_, _, _)
ScanContents(p, c, acc) ==
  IF c > Len(Book[p].contents) THEN acc
  ELSE IF c = Book[p].throwsAt THEN [acc EXCEPT !.thrown = TRUE]
  ELSE ScanContents(p, c + 1,
         WalkNodes(p, c, 1, Len(Book[p].contents[c]), ViewportScope(p, c), acc))

Walk_noFallback(p) == CfiWalk(p)

Walk(p) ==
  LET a == CfiWalk(p) IN
  IF Len(a.wordList) = 0 THEN ScanContents(p, 1, a) ELSE a

(***************************************************************************)
(* State                                                                   *)
(***************************************************************************)
VARIABLES
  rendition,               \* Reader: renditionRef.current is set (the rendition prop)
  page,                    \* Reader: the page the rendition displays
  isOpen,                  \* Reader: showRSVP (the isOpen prop)
  words,                   \* useState: the word sequence
  currentIndex,            \* useState: 0-based index of the displayed word
  isPlaying,               \* useState
  wpm,                     \* useState
  error,                   \* useState: "" is null
  stoppedAtImage,          \* useState
  imageStopIndex,          \* useState
  wordElementsRef,         \* useRef: per-word source references
  lastWordBeforeImageRef,  \* useRef
  timerRef,                \* useRef: TRUE when it holds an interval id
  liveTimers,              \* number of intervals set and not cleared
  timerDelay,              \* period (ms) of the interval timerRef holds, 0 when none
  op,                      \* history: the handler that ran last
  emitted,                 \* history: callbacks and timer calls of that handler, in order
  haltSeen,                \* history: a boundary halt happened, no restart since
  haltedLoad,              \* history: a boundary halt happened on the words loaded now
  rsvpSpeed,               \* Reader: settings.rsvpSpeed (the wpm prop)
  trainingMode,            \* Reader: settings.trainingMode
  probe,                   \* argument and result of a function applied on its own
  isNavigatingRef,         \* Reader useRef: the navigation lock
  lastLocationRef,         \* Reader useRef: cfi of the last 'relocated' event, 0 is null
  navRequests,             \* rendition: next() / prev() calls not yet answered by 'relocated'
  navTimers,               \* pending 300 ms fallback timers of goNext / goPrev
  bookRecord,              \* IndexedDB: lastRead and progress of the stored book
  progressUpdates          \* updateBookProgress calls in flight, in starting order

vars == <<rendition, page, isOpen, words, currentIndex, isPlaying, wpm, error,
          stoppedAtImage, imageStopIndex, wordElementsRef, lastWordBeforeImageRef,
          timerRef, liveTimers, timerDelay, op, emitted, haltSeen, haltedLoad,
          rsvpSpeed, trainingMode, probe, isNavigatingRef, lastLocationRef,
          navRequests, navTimers, bookRecord, progressUpdates>>

\* The Reader's navigation and progress bookkeeping.
ReaderFrame ==
  <<isNavigatingRef, lastLocationRef, navRequests, navTimers, bookRecord,
    progressUpdates>>

\* A book opened for the first time: nothing read, nothing requested.
InitReader ==
  /\ isNavigatingRef = FALSE
  /\ lastLocationRef = 0
  /\ navRequests = <<>>
  /\ navTimers = 0
  /\ bookRecord = [lastRead |-> 0, progress |-> 0]
  /\ progressUpdates = <<>>

\* The overlay's hook state as one record; handlers map it to the next one.
Cur ==
  [words |-> words, currentIndex |-> currentIndex, isPlaying |-> isPlaying,
   wpm |-> wpm, error |-> error, stoppedAtImage |-> stoppedAtImage,
   imageStopIndex |-> imageStopIndex, wordElementsRef |-> wordElementsRef,
   lastWordBeforeImageRef |-> lastWordBeforeImageRef]

\* JavaScript array read: undefined outside the array.
RefAt(refs, i) == IF i >= 0 /\ i < Len(refs) THEN refs[i + 1] ELSE NoRef

\* Math.round(60000 / wpm)
getInterval_inverted(w) == (2 * w + 60000) \div 120000

getInterval(w) == (120000 + w) \div (2 * w)

(***************************************************************************)
(* extractText                                                             *)
(***************************************************************************)
extractText(s, rend, p) ==
  IF ~rend THEN [s EXCEPT !.error = "Reader not ready"]
  ELSE
    LET s0 == [s EXCEPT !.error = "", !.stoppedAtImage = FALSE,
                        !.imageStopIndex = NoStop]
    IN
    IF Len(Book[p].contents) = 0
    THEN [s0 EXCEPT !.error = "No content available"]
    ELSE
      LET a == Walk(p)
          s1 == [s0 EXCEPT !.wordElementsRef = a.refs]
      IN
      IF a.thrown
      THEN [s1 EXCEPT !.error = "Failed to extract text from page"]
      ELSE IF Len(a.wordList) = 0
      THEN [s1 EXCEPT !.error = "No readable text found on this page"]
      ELSE
        LET s2 == IF a.hitImage /\ a.imageStopIdx > 0
                  THEN [s1 EXCEPT !.lastWordBeforeImageRef =
                                     RefAt(a.refs, a.imageStopIdx - 1),
                                  !.imageStopIndex = a.imageStopIdx]
                  ELSE s1
        IN [s2 EXCEPT !.words = a.wordList, !.currentIndex = 0]

\* The effect on [isOpen, extractText], isOpen branch.
openEffect(s, rend, p) ==
  [extractText(s, rend, p) EXCEPT !.isPlaying = FALSE, !.currentIndex = 0]

(***************************************************************************)
(* Handlers, as functions of the hook state                                *)
(***************************************************************************)
\* Mutant: the boundary test compares with imageStopIndex instead of
\* imageStopIndex - 1.
tick_lateHalt(s) ==
  IF s.imageStopIndex > 0 /\ s.currentIndex >= s.imageStopIndex
  THEN [s EXCEPT !.isPlaying = FALSE, !.stoppedAtImage = TRUE]
  ELSE IF s.currentIndex >= Len(s.words) - 1
  THEN [s EXCEPT !.isPlaying = FALSE]
  ELSE [s EXCEPT !.currentIndex = @ + 1]

\* Mutant: the end test lets the last index advance once more.
tick_pastEnd(s) ==
  IF s.imageStopIndex > 0 /\ s.currentIndex >= s.imageStopIndex - 1
  THEN [s EXCEPT !.isPlaying = FALSE, !.stoppedAtImage = TRUE]
  ELSE IF s.currentIndex > Len(s.words) - 1
  THEN [s EXCEPT !.isPlaying = FALSE]
  ELSE [s EXCEPT !.currentIndex = @ + 1]

\* The interval callback: setCurrentIndex(prev => ...)
tick(s) ==
  IF s.imageStopIndex > 0 /\ s.currentIndex >= s.imageStopIndex - 1
  THEN [s EXCEPT !.isPlaying = FALSE, !.stoppedAtImage = TRUE]
  ELSE IF s.currentIndex >= Len(s.words) - 1
  THEN [s EXCEPT !.isPlaying = FALSE]
  ELSE [s EXCEPT !.currentIndex = @ + 1]

togglePlay_alwaysPlay(s) ==
  IF s.stoppedAtImage THEN s
  ELSE [s EXCEPT !.currentIndex = IF @ >= Len(s.words) - 1 THEN 0 ELSE @,
                 !.isPlaying = TRUE]

togglePlay(s) ==
  IF s.stoppedAtImage THEN s
  ELSE [s EXCEPT !.currentIndex = IF @ >= Len(s.words) - 1 THEN 0 ELSE @,
                 !.isPlaying = ~@]

skipBack_noFloor(s) == [s EXCEPT !.currentIndex = @ - SkipN]

skipBack(s) == [s EXCEPT !.currentIndex = Max(0, @ - SkipN)]

\* Mutant: the clamp ignores the image stop.
skipForward_noStopClamp(s) ==
  [s EXCEPT !.currentIndex = Min(Len(s.words) - 1, @ + SkipN)]

skipForward(s) ==
  LET maxIndex == IF s.imageStopIndex > 0
                  THEN Min(Len(s.words) - 1, s.imageStopIndex - 1)
                  ELSE Len(s.words) - 1
  IN [s EXCEPT !.currentIndex = Min(maxIndex, @ + SkipN)]

restart_keepsPlaying(s) ==
  [s EXCEPT !.currentIndex = 0, !.stoppedAtImage = FALSE]

restart_resetsWpm(s) ==
  [s EXCEPT !.currentIndex = 0, !.isPlaying = FALSE, !.stoppedAtImage = FALSE,
            !.wpm = DefaultWpm]

restart(s) ==
  [s EXCEPT !.currentIndex = 0, !.isPlaying = FALSE, !.stoppedAtImage = FALSE]

decreaseWpm_noFloor(s) == [s EXCEPT !.wpm = @ - WpmStep]

decreaseWpm(s) == [s EXCEPT !.wpm = Max(WpmMin, @ - WpmStep)]

increaseWpm(s) == [s EXCEPT !.wpm = Min(WpmMax, @ + WpmStep)]

\* The progress slider: <input type="range" min=0 max=...>
sliderMax(s) == Max(1, Len(s.words) - 1)

seek(s, v) == [s EXCEPT !.currentIndex = v]

(***************************************************************************)
(* Effects.  A timer record t is [ref, live, delay, log]: timerRef.current,*)
(* the number of live intervals, the period of the interval timerRef holds *)
(* and the calls made so far by the handler.                               *)
(***************************************************************************)
Timers ==
  [ref |-> timerRef, live |-> liveTimers, delay |-> timerDelay, log |-> <<>>]

Emit(t, e) == [t EXCEPT !.log = Append(@, e)]

\* if (timerRef.current) { clearInterval(timerRef.current); timerRef.current = null; }
clearTimer(t) ==
  IF t.ref
  THEN [ref |-> FALSE, live |-> t.live - 1, delay |-> 0,
        log |-> Append(t.log, [ev |-> "clearInterval", ref |-> NoRef])]
  ELSE t

\* timerRef.current = setInterval(..., d)
armTimer(t, d) ==
  [ref |-> TRUE, live |-> t.live + 1, delay |-> d,
   log |-> Append(t.log, [ev |-> "setInterval", ref |-> NoRef])]

playbackDeps_noInterval(s) ==
  <<s.isPlaying, Len(s.words), s.imageStopIndex>>

playbackDeps(s) ==
  <<s.isPlaying, Len(s.words), getInterval(s.wpm), s.imageStopIndex>>

\* The playback effect between hook states old and new: when a dependency
\* changed, the previous run's cleanup and then the effect body.
playbackEffect(old, new, t) ==
  IF playbackDeps(old) = playbackDeps(new) THEN t
  ELSE LET c == clearTimer(t) IN
       IF new.isPlaying /\ Len(new.words) > 0 THEN armTimer(c, getInterval(new.wpm)) ELSE clearTimer(c)

\* The effect on [isOpen, extractText], else branch.
closeEffect(s) == [s EXCEPT !.isPlaying = FALSE]

\* Reader: rendition.next() / rendition.prev()
nextPage(p) == Min(p + 1, NumPages)
prevPage(p) == Max(p - 1, 1)

(***************************************************************************)
(* Actions                                                                 *)
(***************************************************************************)
\* The hook state s and timer record t a handler named name ends with.
CommitHooks(name, s, t) ==
  /\ words' = s.words
  /\ currentIndex' = s.currentIndex
  /\ isPlaying' = s.isPlaying
  /\ wpm' = s.wpm
  /\ error' = s.error
  /\ stoppedAtImage' = s.stoppedAtImage
  /\ imageStopIndex' = s.imageStopIndex
  /\ wordElementsRef' = s.wordElementsRef
  /\ lastWordBeforeImageRef' = s.lastWordBeforeImageRef
  /\ timerRef' = t.ref
  /\ liveTimers' = t.live
  /\ timerDelay' = t.delay
  /\ emitted' = t.log
  /\ op' = name
  \* onWpmChange(newWpm) is updateSetting('rsvpSpeed', newWpm)
  /\ rsvpSpeed' = IF name \in {"decreaseWpm", "increaseWpm"} THEN s.wpm ELSE rsvpSpeed

\* The same for a handler of the overlay alone: the Reader's other state stays.
Commit(name, s, t) ==
  /\ words' = s.words
  /\ currentIndex' = s.currentIndex
  /\ isPlaying' = s.isPlaying
  /\ wpm' = s.wpm
  /\ error' = s.error
  /\ stoppedAtImage' = s.stoppedAtImage
  /\ imageStopIndex' = s.imageStopIndex
  /\ wordElementsRef' = s.wordElementsRef
  /\ lastWordBeforeImageRef' = s.lastWordBeforeImageRef
  /\ timerRef' = t.ref
  /\ liveTimers' = t.live
  /\ timerDelay' = t.delay
  /\ emitted' = t.log
  /\ op' = name
  \* onWpmChange(newWpm) is updateSetting('rsvpSpeed', newWpm)
  /\ rsvpSpeed' = IF name \in {"decreaseWpm", "increaseWpm"} THEN s.wpm ELSE rsvpSpeed
  /\ UNCHANGED <<trainingMode, probe>>
  /\ UNCHANGED ReaderFrame

\* A handler that only sets hook state: re-render, then the playback effect.
Handle(name, s) ==
  /\ Commit(name, s, playbackEffect(Cur, s, Timers))
  /\ UNCHANGED <<rendition, page, isOpen>>

Init ==
  /\ rendition = FALSE
  /\ page = 1
  /\ isOpen = FALSE
  /\ words = <<>>
  /\ currentIndex = 0
  /\ isPlaying = FALSE
  /\ wpm = DefaultWpm
  /\ error = ""
  /\ stoppedAtImage = FALSE
  /\ imageStopIndex = NoStop
  /\ wordElementsRef = <<>>
  /\ lastWordBeforeImageRef = NoRef
  /\ timerRef = FALSE
  /\ liveTimers = 0
  /\ timerDelay = 0
  /\ op = "init"
  /\ emitted = <<>>
  /\ haltSeen = FALSE
  /\ haltedLoad = FALSE
  /\ rsvpSpeed = DefaultWpm
  /\ trainingMode = FALSE
  /\ probe = NoProbe
  /\ InitReader

\* Reader initReader: the rendition is created and the Reader re-renders, so
\* the overlay's rendition prop (and with it extractText) changes and the
\* effect on [isOpen, extractText] runs again.
RenditionReady ==
  /\ ~rendition
  /\ rendition' = TRUE
  /\ LET s == IF isOpen THEN openEffect(Cur, TRUE, page) ELSE closeEffect(Cur)
         t == IF isOpen THEN Timers ELSE clearTimer(Timers)
     IN /\ Commit("renditionReady", s, playbackEffect(Cur, s, t))
        /\ haltedLoad' = (haltedLoad /\ ~(isOpen /\ s.error = ""))
  /\ UNCHANGED <<page, isOpen, haltSeen>>

\* Reader goNext / goPrev (footer, taps, and the keys the overlay lets through)
ReaderNext ==
  /\ rendition
  /\ page' = nextPage(page)
  /\ Commit("goNext", Cur, Timers)
  /\ UNCHANGED <<rendition, isOpen, haltSeen, haltedLoad>>

ReaderPrev ==
  /\ rendition
  /\ page' = prevPage(page)
  /\ Commit("goPrev", Cur, Timers)
  /\ UNCHANGED <<rendition, isOpen, haltSeen, haltedLoad>>

\* Reader handleRSVPClick, then the effect on [isOpen, extractText]
Open ==
  /\ ~isOpen
  /\ isOpen' = TRUE
  /\ LET s == openEffect(Cur, rendition, page)
     IN /\ Commit("open", s, playbackEffect(Cur, s, Timers))
        /\ haltedLoad' = (haltedLoad /\ s.error # "")
  /\ UNCHANGED <<rendition, page, haltSeen>>

\* The "Try Again" button of the error view
TryAgain ==
  /\ isOpen
  /\ error # ""
  /\ LET s == extractText(Cur, rendition, page)
     IN /\ Handle("tryAgain", s)
        /\ haltedLoad' = (haltedLoad /\ s.error # "")
  /\ UNCHANGED haltSeen

\* The interval callback.  When it halts at the image, the effect on
\* [stoppedAtImage, onStopAtImage] calls onStopAtImage(lastWord), which is
\* Reader.handleRSVPStopAtImage: it closes the overlay and, navigateToNext
\* defaulting to true, turns the page; the re-render then runs the effect on
\* [isOpen, extractText].
Tick ==
  /\ liveTimers > 0
  /\ LET s == tick(Cur)
         t == playbackEffect(Cur, s, Timers)
         notify == /\ s.stoppedAtImage
                   /\ ~stoppedAtImage
                   /\ lastWordBeforeImageRef # NoRef
         t1 == IF notify
               THEN Emit(t, [ev |-> "stopAtImage", ref |-> lastWordBeforeImageRef])
               ELSE t
     IN /\ haltSeen' = (haltSeen \/ s.stoppedAtImage)
        /\ haltedLoad' = (haltedLoad \/ s.stoppedAtImage)
        /\ IF notify /\ rendition
           THEN LET t2 == Emit(t1, [ev |-> "next", ref |-> NoRef])
                    s1 == closeEffect(s)
                IN /\ isOpen' = FALSE
                   /\ page' = nextPage(page)
                   /\ Commit("tick", s1, playbackEffect(s, s1, clearTimer(t2)))
           ELSE /\ Commit("tick", s, t1)
                /\ UNCHANGED <<isOpen, page>>
  /\ UNCHANGED rendition

TogglePlay ==
  /\ isOpen
  /\ Handle("togglePlay", togglePlay(Cur))
  /\ UNCHANGED <<haltSeen, haltedLoad>>

SkipBack ==
  /\ isOpen
  /\ Handle("skipBack", skipBack(Cur))
  /\ UNCHANGED <<haltSeen, haltedLoad>>

SkipForward ==
  /\ isOpen
  /\ Handle("skipForward", skipForward(Cur))
  /\ UNCHANGED <<haltSeen, haltedLoad>>

Seek ==
  /\ isOpen
  /\ \E v \in 0..sliderMax(Cur) :
        /\ v # currentIndex
        /\ Handle("seek", seek(Cur, v))
  /\ UNCHANGED <<haltSeen, haltedLoad>>

Restart ==
  /\ isOpen
  /\ Handle("restart", restart(Cur))
  /\ haltSeen' = FALSE
  /\ UNCHANGED haltedLoad

DecreaseWpm ==
  /\ isOpen
  /\ wpm - WpmStep >= DefaultWpm
  /\ Handle("decreaseWpm", decreaseWpm(Cur))
  /\ UNCHANGED <<haltSeen, haltedLoad>>

IncreaseWpm ==
  /\ isOpen
  /\ wpm + WpmStep <= DefaultWpm + MaxWpmSteps * WpmStep
  /\ Handle("increaseWpm", increaseWpm(Cur))
  /\ UNCHANGED <<haltSeen, haltedLoad>>

\* handleClose (close button, Escape): onCloseWithPosition, onClose, and then
\* the effect on [isOpen, extractText] of the re-render.
Close ==
  /\ isOpen
  /\ isOpen' = FALSE
  /\ LET r == RefAt(wordElementsRef, currentIndex)
         t0 == IF r # NoRef
               THEN Emit(Timers, [ev |-> "closeWithPosition", ref |-> r])
               ELSE Timers
         t1 == clearTimer(Emit(t0, [ev |-> "onClose", ref |-> NoRef]))
         s == closeEffect(Cur)
     IN Commit("close", s, playbackEffect(Cur, s, t1))
  /\ UNCHANGED <<rendition, page, haltSeen, haltedLoad>>

Next ==
  \/ RenditionReady
  \/ ReaderNext
  \/ ReaderPrev
  \/ Open
  \/ TryAgain
  \/ Tick
  \/ TogglePlay
  \/ SkipBack
  \/ SkipForward
  \/ Seek
  \/ Restart
  \/ DecreaseWpm
  \/ IncreaseWpm
  \/ Close

Spec == Init /\ [][Next]_vars

(***************************************************************************)
(* The interval computation on its own: getInterval applied at every       *)
(* integer rate the wpm state can be initialised with, and again at the    *)
(* next higher rate.                                                       *)
(***************************************************************************)
TimingFrame ==
  <<rendition, page, isOpen, words, currentIndex, isPlaying, error,
    stoppedAtImage, imageStopIndex, wordElementsRef, lastWordBeforeImageRef,
    timerRef, liveTimers, emitted, haltSeen, haltedLoad, rsvpSpeed,
    trainingMode, probe, ReaderFrame>>

InitTiming ==
  /\ rendition = FALSE
  /\ page = 1
  /\ isOpen = FALSE
  /\ words = <<>>
  /\ currentIndex = 0
  /\ isPlaying = FALSE
  /\ wpm \in WpmMin..TrainingWpmMax
  /\ error = ""
  /\ stoppedAtImage = FALSE
  /\ imageStopIndex = NoStop
  /\ wordElementsRef = <<>>
  /\ lastWordBeforeImageRef = NoRef
  /\ timerRef = FALSE
  /\ liveTimers = 0
  /\ timerDelay = 0
  /\ op = "init"
  /\ emitted = <<>>
  /\ haltSeen = FALSE
  /\ haltedLoad = FALSE
  /\ rsvpSpeed = DefaultWpm
  /\ trainingMode = FALSE
  /\ probe = NoProbe
  /\ InitReader

\* getInterval() at the current rate
ApplyInterval ==
  /\ timerDelay = 0
  /\ timerDelay' = getInterval(wpm)
  /\ op' = "getInterval"
  /\ UNCHANGED wpm
  /\ UNCHANGED TimingFrame

\* the rate raised by one, and getInterval() at the new rate
RaiseRate ==
  /\ timerDelay > 0
  /\ wpm < TrainingWpmMax
  /\ wpm' = wpm + 1
  /\ timerDelay' = getInterval(wpm')
  /\ op' = "getInterval"
  /\ UNCHANGED TimingFrame

NextTiming ==
  \/ ApplyInterval
  \/ RaiseRate

SpecTiming == InitTiming /\ [][NextTiming]_vars

(***************************************************************************)
(* The WPM handlers on their own, from every value the Reading Speed       *)
(* slider can have stored when the overlay is mounted.                     *)
(***************************************************************************)
SliderValues == {v \in WpmMin..WpmMax : (v - WpmMin) % SliderStep = 0}

\* Every hook, ref and history variable at its initial value; wpm, rsvpSpeed
\* and probe left open.
InitOverlay ==
  /\ rendition = FALSE
  /\ page = 1
  /\ isOpen = FALSE
  /\ words = <<>>
  /\ currentIndex = 0
  /\ isPlaying = FALSE
  /\ error = ""
  /\ stoppedAtImage = FALSE
  /\ imageStopIndex = NoStop
  /\ wordElementsRef = <<>>
  /\ lastWordBeforeImageRef = NoRef
  /\ timerRef = FALSE
  /\ liveTimers = 0
  /\ timerDelay = 0
  /\ op = "init"
  /\ emitted = <<>>
  /\ haltSeen = FALSE
  /\ haltedLoad = FALSE
  /\ trainingMode = FALSE
  /\ InitReader

WpmFrame ==
  <<rendition, page, isOpen, words, currentIndex, isPlaying, error,
    stoppedAtImage, imageStopIndex, wordElementsRef, lastWordBeforeImageRef,
    timerRef, liveTimers, timerDelay, emitted, haltSeen, haltedLoad,
    trainingMode, probe, ReaderFrame>>

InitWpm ==
  /\ rsvpSpeed \in SliderValues
  /\ wpm = rsvpSpeed
  /\ probe = NoProbe
  /\ InitOverlay

ApplyDecreaseWpm ==
  /\ wpm' = decreaseWpm(Cur).wpm
  /\ rsvpSpeed' = wpm'
  /\ op' = "decreaseWpm"
  /\ UNCHANGED WpmFrame

ApplyIncreaseWpm ==
  /\ wpm' = increaseWpm(Cur).wpm
  /\ rsvpSpeed' = wpm'
  /\ op' = "increaseWpm"
  /\ UNCHANGED WpmFrame

\* The Reading Speed slider of the settings panel
SetReadingSpeed ==
  /\ \E v \in SliderValues : rsvpSpeed' = v
  /\ op' = "setReadingSpeed"
  /\ UNCHANGED wpm
  /\ UNCHANGED WpmFrame

\* The Reader is left and entered again: the overlay is mounted anew
MountOverlay ==
  /\ wpm' = rsvpSpeed
  /\ op' = "mount"
  /\ UNCHANGED rsvpSpeed
  /\ UNCHANGED WpmFrame

NextWpm ==
  \/ ApplyDecreaseWpm
  \/ ApplyIncreaseWpm
  \/ SetReadingSpeed
  \/ MountOverlay

SpecWpm == InitWpm /\ [][NextWpm]_vars

(***************************************************************************)
(* Playback with the Training Mode setting: the overlay on the first page, *)
(* the Training Mode toggle of the settings panel, and the passing of ten  *)
(* seconds, for which no component sets a timer.                           *)
(***************************************************************************)
TrainingFrame ==
  <<rendition, page, isOpen, words, currentIndex, isPlaying, wpm, error,
    stoppedAtImage, imageStopIndex, wordElementsRef, lastWordBeforeImageRef,
    timerRef, liveTimers, timerDelay, emitted, haltSeen, haltedLoad,
    rsvpSpeed, probe, ReaderFrame>>

ToggleTraining ==
  /\ trainingMode' = ~trainingMode
  /\ op' = "toggleTraining"
  /\ UNCHANGED TrainingFrame

TenSecondsElapse ==
  /\ op' = "tenSeconds"
  /\ UNCHANGED trainingMode
  /\ UNCHANGED TrainingFrame

NextTraining ==
  \/ RenditionReady
  \/ Open
  \/ TogglePlay
  \/ Tick
  \/ Close
  \/ ToggleTraining
  \/ TenSecondsElapse

SpecTraining == Init /\ [][NextTraining]_vars

(***************************************************************************)
(* The text functions of extractText on their own.                         *)
(***************************************************************************)
ProbeFrame ==
  <<rendition, page, isOpen, words, currentIndex, isPlaying, wpm, error,
    stoppedAtImage, imageStopIndex, wordElementsRef, lastWordBeforeImageRef,
    timerRef, liveTimers, timerDelay, emitted, haltSeen, haltedLoad,
    rsvpSpeed, trainingMode, ReaderFrame>>

SampleChars == <<"a", "b", "c", "d", "e", "f", "g", "h">>

\* A text node of 1..MaxTextLen characters met by the range walk, being or
\* not being the range's start and end container.  A DOM Range has its start
\* before its end.
RangeInputs ==
  {[fn |-> "partialText", text |-> SubSeq(SampleChars, 1, n), isEnd |-> e,
    endOffset |-> eo, isStart |-> b, startOffset |-> so, out |-> <<>>,
    done |-> FALSE] :
     n \in 1..MaxTextLen, e \in BOOLEAN, eo \in 0..MaxTextLen,
     b \in BOOLEAN, so \in 0..MaxTextLen}

InitRange ==
  /\ probe \in {r \in RangeInputs :
                   /\ r.endOffset <= Len(r.text)
                   /\ r.startOffset <= Len(r.text)
                   /\ (r.isStart /\ r.isEnd) => r.startOffset <= r.endOffset}
  /\ wpm = DefaultWpm
  /\ rsvpSpeed = DefaultWpm
  /\ InitOverlay

ApplyPartialText ==
  /\ probe.fn = "partialText"
  /\ ~probe.done
  /\ probe' = [probe EXCEPT
                 !.out = partialText(probe.text, probe.isEnd, probe.endOffset,
                                     probe.isStart, probe.startOffset),
                 !.done = TRUE]
  /\ op' = "partialText"
  /\ UNCHANGED ProbeFrame

NextRange == ApplyPartialText

SpecRange == InitRange /\ [][NextRange]_vars

\* A split-off word (no whitespace, not empty) of 1..MaxWordLen characters,
\* on the range path or the viewport path.
CleanAlphabet == {"a", "7", "_", ".", "rsquo", "eacute", "*"}

CleanInputs ==
  {[fn |-> "pushWord", path |-> pth, word |-> w, out |-> <<>>, done |-> FALSE] :
     pth \in {"range", "viewport"},
     w \in UNION {[1..n -> CleanAlphabet] : n \in 1..MaxWordLen}}

InitClean ==
  /\ probe \in CleanInputs
  /\ wpm = DefaultWpm
  /\ rsvpSpeed = DefaultWpm
  /\ InitOverlay

ApplyPushWord ==
  /\ probe.fn = "pushWord"
  /\ ~probe.done
  /\ probe' = [probe EXCEPT !.out = pushWord(probe.word), !.done = TRUE]
  /\ op' = "pushWord"
  /\ UNCHANGED ProbeFrame

NextClean == ApplyPushWord

SpecClean == InitClean /\ [][NextClean]_vars

(***************************************************************************)
(* Playback left to itself: while isPlaying is true nothing but the        *)
(* interval callback runs; commands and the rendition's arrival come only  *)
(* while playback is off.  An interval that is set keeps calling its       *)
(* callback (the browser's timer queue), hence the fairness of Tick.       *)
(***************************************************************************)
NextLive ==
  \/ Tick
  \/ ~isPlaying /\ Next

SpecLive == Init /\ [][NextLive]_vars /\ WF_vars(Tick)

(***************************************************************************)
(* Key dispatch.  Both components listen for 'keydown' on window: the      *)
(* overlay in the capture phase while it is open, the Reader in the bubble *)
(* phase (its settings and contents panels taken as closed).  A step is    *)
(* one key event: the listeners that run, in dispatch order, with their    *)
(* re-render and effects.  probe records the event and what it did.        *)
(***************************************************************************)
Keys ==
  {"Space", "Escape", "ArrowLeft", "ArrowRight", "ArrowUp", "ArrowDown", "r",
   "PageDown", "PageUp", "a"}

\* The switch of the overlay's handleKeyDown: the handler it calls.
overlayKey(k) ==
  CASE k = "Space" -> "togglePlay"
    [] k = "Escape" -> "close"
    [] k = "ArrowLeft" -> "skipBack"
    [] k = "ArrowRight" -> "skipForward"
    [] k = "ArrowUp" -> "increaseWpm"
    [] k = "ArrowDown" -> "decreaseWpm"
    [] k = "r" -> "restart"
    [] OTHER -> "none"

\* The switch of the Reader's handleKeyDown.
readerKey(k) ==
  CASE k \in {"ArrowRight", "PageDown"} -> "goNext"
    [] k \in {"ArrowLeft", "PageUp"} -> "goPrev"
    [] k = "Escape" -> "navigate"
    [] OTHER -> "none"

\* Mutant: the overlay's listener does not stop the propagation.
dispatch_noStop(open, k) ==
  <<IF open THEN overlayKey(k) ELSE "none", readerKey(k)>>

\* The handlers that run for key k: the capture listener first; every case of
\* its switch calls e.stopPropagation(), which ends the dispatch before the
\* bubble phase, so the Reader's listener runs only for the other keys.
dispatch(open, k) ==
  LET o == IF open THEN overlayKey(k) ELSE "none"
  IN <<o, IF o # "none" THEN "none" ELSE readerKey(k)>>

\* The hook state after the overlay's handler h.
overlayHandler(h, s) ==
  CASE h = "togglePlay" -> togglePlay(s)
    [] h = "close" -> closeEffect(s)
    [] h = "skipBack" -> skipBack(s)
    [] h = "skipForward" -> skipForward(s)
    [] h = "increaseWpm" -> increaseWpm(s)
    [] h = "decreaseWpm" -> decreaseWpm(s)
    [] h = "restart" -> restart(s)
    [] OTHER -> s

\* Reader navigate('/'): the Reader and the overlay unmount (the playback
\* effect's cleanup clears the interval); the book later reopens at the saved
\* position with the saved settings.
Unmount ==
  /\ rendition' = FALSE
  /\ isOpen' = FALSE
  /\ words' = <<>>
  /\ currentIndex' = 0
  /\ isPlaying' = FALSE
  /\ wpm' = rsvpSpeed
  /\ error' = ""
  /\ stoppedAtImage' = FALSE
  /\ imageStopIndex' = NoStop
  /\ wordElementsRef' = <<>>
  /\ lastWordBeforeImageRef' = NoRef
  /\ timerRef' = FALSE
  /\ liveTimers' = 0
  /\ timerDelay' = 0
  /\ op' = "navigate"
  /\ emitted' = <<>>
  /\ haltSeen' = FALSE
  /\ haltedLoad' = FALSE
  /\ UNCHANGED <<page, rsvpSpeed, trainingMode>>

KeyDown ==
  \E k \in Keys :
    LET d == dispatch(isOpen, k)
        o == d[1]
        r == d[2]
        s == overlayHandler(o, Cur)
        ref == RefAt(wordElementsRef, currentIndex)
        t0 == IF o = "close"
              THEN clearTimer(Emit(IF ref # NoRef
                                   THEN Emit(Timers, [ev |-> "closeWithPosition",
                                                      ref |-> ref])
                                   ELSE Timers,
                                   [ev |-> "onClose", ref |-> NoRef]))
              ELSE Timers
        p == CASE r = "goNext" /\ rendition -> nextPage(page)
               [] r = "goPrev" /\ rendition -> prevPage(page)
               [] OTHER -> page
    IN /\ o = "increaseWpm" => wpm + WpmStep <= DefaultWpm + MaxWpmSteps * WpmStep
       /\ o = "decreaseWpm" => wpm - WpmStep >= DefaultWpm
       /\ IF r = "navigate"
          THEN Unmount
          ELSE /\ CommitHooks(IF r # "none" THEN r ELSE o, s,
                              playbackEffect(Cur, s, t0))
               /\ isOpen' = (isOpen /\ o # "close")
               /\ page' = p
               /\ haltSeen' = (haltSeen /\ o # "restart")
               /\ UNCHANGED <<rendition, haltedLoad, trainingMode>>
       /\ probe' = [fn |-> "keydown", key |-> k, open |-> isOpen,
                    overlay |-> o, reader |-> r,
                    turned |-> (r # "navigate" /\ p # page),
                    left |-> (r = "navigate")]
       /\ UNCHANGED ReaderFrame

NextKeys ==
  \/ RenditionReady
  \/ Open
  \/ KeyDown

SpecKeys == Init /\ [][NextKeys]_vars

(***************************************************************************)
(* The overlay's wpm state and settings.rsvpSpeed together: the WPM        *)
(* handlers, the Reading Speed slider, and the overlay opened and closed   *)
(* while it stays mounted.                                                 *)
(***************************************************************************)
NextSync ==
  \/ ApplyDecreaseWpm
  \/ ApplyIncreaseWpm
  \/ SetReadingSpeed
  \/ MountOverlay
  \/ Open
  \/ Close

SpecSync == InitWpm /\ [][NextSync]_vars

(***************************************************************************)
(* Reader page navigation and progress saving, with the overlay closed.    *)
(* rendition.next() / prev() are asynchronous: the rendition answers its   *)
(* calls in order, each with a 'relocated' event.  updateBookProgress is   *)
(* started by the event's handler and not awaited; each call opens its own *)
(* connection, reads the book and writes it back, one await at a time.     *)
(***************************************************************************)
MaxOutstanding == 2   \* navigation requests, and fallback timers, pending at once
MaxUpdates == 2       \* updateBookProgress calls in flight at once

NavFrame ==
  <<rendition, isOpen, words, currentIndex, isPlaying, wpm, error,
    stoppedAtImage, imageStopIndex, wordElementsRef, lastWordBeforeImageRef,
    timerRef, liveTimers, timerDelay, emitted, haltSeen, haltedLoad,
    rsvpSpeed, trainingMode, probe>>

\* location.start.percentage of page p, in hundredths
percentage(p) == (100 * (p - 1)) \div NumPages

RemoveAt(q, i) == SubSeq(q, 1, i - 1) \o SubSeq(q, i + 1, Len(q))

\* if (renditionRef.current && !isNavigatingRef.current)
mayNavigate(rend, lock) == rend /\ ~lock

\* goNext / goPrev: lock, request, and the fallback timer set
navigate(dir) ==
  /\ mayNavigate(rendition, isNavigatingRef)
  /\ Len(navRequests) < MaxOutstanding
  /\ navTimers < MaxOutstanding
  /\ isNavigatingRef' = TRUE
  /\ navRequests' = Append(navRequests, dir)
  /\ navTimers' = navTimers + 1
  /\ UNCHANGED <<page, lastLocationRef, bookRecord, progressUpdates>>
  /\ UNCHANGED NavFrame

GoNext ==
  /\ navigate("next")
  /\ op' = "goNext"

GoPrev ==
  /\ navigate("prev")
  /\ op' = "goPrev"

\* The 'relocated' handler, for the event that answers the oldest request:
\* lastLocationRef, updateBookProgress started, the lock reset.
Relocated ==
  /\ Len(navRequests) > 0
  /\ Len(progressUpdates) < MaxUpdates
  /\ LET p == IF Head(navRequests) = "next" THEN nextPage(page) ELSE prevPage(page)
     IN /\ page' = p
        /\ lastLocationRef' = p
        /\ progressUpdates' = Append(progressUpdates,
                                     [location |-> p, progress |-> percentage(p),
                                      stage |-> "get"])
  /\ navRequests' = Tail(navRequests)
  /\ isNavigatingRef' = FALSE
  /\ op' = "relocated"
  /\ UNCHANGED <<navTimers, bookRecord>>
  /\ UNCHANGED NavFrame

\* setTimeout(() => { isNavigatingRef.current = false; }, 300)
FallbackTimer ==
  /\ navTimers > 0
  /\ navTimers' = navTimers - 1
  /\ isNavigatingRef' = FALSE
  /\ op' = "fallbackTimer"
  /\ UNCHANGED <<page, lastLocationRef, navRequests, bookRecord, progressUpdates>>
  /\ UNCHANGED NavFrame

\* updateBookProgress up to: const book = await db.get('books', id)
ProgressRead ==
  /\ \E i \in 1..Len(progressUpdates) :
        /\ progressUpdates[i].stage = "get"
        /\ progressUpdates' = [progressUpdates EXCEPT ![i].stage = "put"]
  /\ op' = "progressRead"
  /\ UNCHANGED <<page, isNavigatingRef, lastLocationRef, navRequests, navTimers,
                 bookRecord>>
  /\ UNCHANGED NavFrame

\* book.lastRead = location; book.progress = progress; await db.put('books', book)
ProgressWrite ==
  /\ \E i \in 1..Len(progressUpdates) :
        /\ progressUpdates[i].stage = "put"
        /\ bookRecord' = [lastRead |-> progressUpdates[i].location,
                          progress |-> progressUpdates[i].progress]
        /\ progressUpdates' = RemoveAt(progressUpdates, i)
  /\ op' = "progressWrite"
  /\ UNCHANGED <<page, isNavigatingRef, lastLocationRef, navRequests, navTimers>>
  /\ UNCHANGED NavFrame

NextNav ==
  \/ RenditionReady
  \/ GoNext
  \/ GoPrev
  \/ Relocated
  \/ FallbackTimer
  \/ ProgressRead
  \/ ProgressWrite

SpecNav == Init /\ [][NextNav]_vars

(***************************************************************************)
(* extractText on its own: the overlay opened, retried, skipped through    *)
(* and closed on each page of Book, without page turns or playback.        *)
(***************************************************************************)
InitExtract ==
  /\ rendition = FALSE
  /\ page \in 1..Len(Book)
  /\ isOpen = FALSE
  /\ words = <<>>
  /\ currentIndex = 0
  /\ isPlaying = FALSE
  /\ wpm = DefaultWpm
  /\ error = ""
  /\ stoppedAtImage = FALSE
  /\ imageStopIndex = NoStop
  /\ wordElementsRef = <<>>
  /\ lastWordBeforeImageRef = NoRef
  /\ timerRef = FALSE
  /\ liveTimers = 0
  /\ timerDelay = 0
  /\ op = "init"
  /\ emitted = <<>>
  /\ haltSeen = FALSE
  /\ haltedLoad = FALSE
  /\ rsvpSpeed = DefaultWpm
  /\ trainingMode = FALSE
  /\ probe = NoProbe
  /\ InitReader

NextExtract ==
  \/ RenditionReady
  \/ Open
  \/ TryAgain
  \/ SkipForward
  \/ SkipBack
  \/ Close

SpecExtract == InitExtract /\ [][NextExtract]_vars

(***************************************************************************)
(* Claims                                                                  *)
(***************************************************************************)
StopDefined == imageStopIndex > 0

HasEvent(log, name) == \E i \in 1..Len(log) : log[i].ev = name

\* C1: in every reachable state 0 <= currentIndex < length(words), or
\* currentIndex = 0 when words is empty.
C1_IndexInRange ==
  IF Len(words) = 0
  THEN currentIndex = 0
  ELSE 0 <= currentIndex /\ currentIndex < Len(words)

\* C2: once playback has auto-paused at the image boundary, every play request
\* leaves currentIndex, isPlaying and stoppedAtImage unchanged until restart
\* (or continue-past-boundary) is invoked.
C2_PlayRefusedAfterHalt ==
  [][(haltSeen /\ op' = "togglePlay")
       => /\ currentIndex' = currentIndex
          /\ isPlaying' = isPlaying
          /\ stoppedAtImage' = stoppedAtImage]_vars

\* C3: a tick with a stop index defined and currentIndex >= stopIndex - 1 sets
\* isPlaying = false and stoppedAtImage = true, leaves currentIndex unchanged,
\* and emits the boundary-halt event with the source reference of word
\* stopIndex - 1 of the current sequence.
C3_TickHaltsAtBoundary ==
  [][(op' = "tick" /\ StopDefined /\ currentIndex >= imageStopIndex - 1)
       => /\ isPlaying' = FALSE
          /\ stoppedAtImage' = TRUE
          /\ currentIndex' = currentIndex
          /\ imageStopIndex <= Len(words)
          /\ \E i \in 1..Len(emitted') :
                /\ emitted'[i].ev = "stopAtImage"
                /\ emitted'[i].ref = RefAt(wordElementsRef, imageStopIndex - 1)
                /\ emitted'[i].ref.word = words[imageStopIndex]]_vars

C3_Witness ==
  /\ op = "tick"
  /\ stoppedAtImage
  /\ ~isPlaying
  /\ currentIndex = imageStopIndex - 1
  /\ HasEvent(emitted, "stopAtImage")

\* C4: when no boundary halt applies, a tick below the last index increments
\* currentIndex by exactly 1 and keeps isPlaying true; a tick at the last index
\* sets isPlaying = false and leaves currentIndex unchanged (so a 1-token
\* sequence stops after one tick with currentIndex = 0).
C4_TickAdvancesOrFinishes ==
  [][(op' = "tick" /\ ~(StopDefined /\ currentIndex >= imageStopIndex - 1))
       => /\ currentIndex < Len(words) - 1
             => (currentIndex' = currentIndex + 1 /\ isPlaying' = TRUE)
          /\ currentIndex = Len(words) - 1
             => (currentIndex' = currentIndex /\ isPlaying' = FALSE)]_vars

C4_Witness ==
  /\ op = "tick"
  /\ Len(words) = 1
  /\ ~StopDefined
  /\ currentIndex = 0
  /\ ~isPlaying
  /\ ~stoppedAtImage

\* C5: at most one playback timer is armed, none is armed when isPlaying is
\* false or the overlay is closed, and a replacement of the word sequence and
\* a change of the displayed content region each leave no timer armed.
C5_TimerHygiene ==
  /\ [](liveTimers <= 1 /\ (liveTimers > 0 => (isPlaying /\ isOpen)))
  /\ [][words' # words => liveTimers' = 0]_vars
  /\ [][page' # page => liveTimers' = 0]_vars

\* C6: on close the playback timer is cancelled before any other teardown
\* step: before the closed-at-position event and before the host's onClose.
C6_CancelBeforeTeardown ==
  op = "close" =>
    \A i, j \in 1..Len(emitted) :
       (emitted[i].ev = "clearInterval"
          /\ emitted[j].ev \in {"closeWithPosition", "onClose"}) => i < j

\* C7: after every successful extraction (on open, on a change of the
\* rendition, on Try Again) currentIndex = 0, isPlaying = false,
\* stoppedAtImage = false and no timer is armed.
ExtractionRan ==
  op \in {"open", "tryAgain"} \/ (op = "renditionReady" /\ isOpen)

C7_LoadResets ==
  (ExtractionRan /\ error = "")
    => /\ currentIndex = 0
       /\ ~isPlaying
       /\ ~stoppedAtImage
       /\ liveTimers = 0

\* C8: while the sequence is empty, or after an extraction that yielded no
\* token, play, skipBack and skipForward leave isPlaying and currentIndex
\* unchanged.
C8_EmptyIsInert ==
  [][((Len(words) = 0 \/ error = "No readable text found on this page")
        /\ op' \in {"togglePlay", "skipBack", "skipForward"})
       => (isPlaying' = isPlaying /\ currentIndex' = currentIndex)]_vars

\* C9: a failed extraction (no content, no readable token, exception during
\* the walk) leaves words, the source references, currentIndex, isPlaying, the
\* stop index and stoppedAtImage unchanged.
ExtractionFailures ==
  {"No content available", "No readable text found on this page",
   "Failed to extract text from page"}

C9_FailureLeavesState ==
  [][((op' \in {"open", "tryAgain"} \/ (op' = "renditionReady" /\ isOpen))
        /\ error' \in ExtractionFailures)
       => UNCHANGED <<words, wordElementsRef, currentIndex, isPlaying,
                      imageStopIndex, stoppedAtImage>>]_vars

\* C10: skipForward sets currentIndex to min(effectiveMax, currentIndex + 10),
\* effectiveMax being stopIndex - 1 when a stop index is defined and
\* length - 1 otherwise, and leaves isPlaying unchanged.
EffectiveMax == IF StopDefined THEN imageStopIndex - 1 ELSE Len(words) - 1

C10_SkipForwardClamps ==
  [][op' = "skipForward"
       => /\ currentIndex' = Min(EffectiveMax, currentIndex + SkipN)
          /\ currentIndex' <= EffectiveMax
          /\ isPlaying' = isPlaying]_vars

C10_Witness ==
  /\ op = "skipForward"
  /\ StopDefined
  /\ Len(words) > imageStopIndex
  /\ currentIndex = imageStopIndex - 1

\* C11: skipBack sets currentIndex to max(0, currentIndex - 10) and leaves
\* isPlaying and stoppedAtImage unchanged, from every reachable state.
C11_SkipBackFloors ==
  [][op' = "skipBack"
       => /\ currentIndex' = Max(0, currentIndex - SkipN)
          /\ currentIndex' >= 0
          /\ isPlaying' = isPlaying
          /\ stoppedAtImage' = stoppedAtImage]_vars

C11_Witness ==
  /\ op = "skipBack"
  /\ isPlaying
  /\ currentIndex = LongLen - 1 - SkipN

\* C12: a seek through the progress slider leaves currentIndex within
\* [0, length - 1] for every sequence length, 0 and 1 included (index 0 on
\* the empty sequence).
C12_SeekStaysInRange ==
  [][op' = "seek"
       => IF Len(words) = 0
          THEN currentIndex' = 0
          ELSE 0 <= currentIndex' /\ currentIndex' <= Len(words) - 1]_vars

\* C13: restart, from any reachable state, yields currentIndex = 0,
\* isPlaying = false and stoppedAtImage = false.
C13_RestartResets ==
  [][op' = "restart"
       => /\ currentIndex' = 0
          /\ isPlaying' = FALSE
          /\ stoppedAtImage' = FALSE]_vars

C13_Witness ==
  /\ op = "restart"
  /\ HasEvent(emitted, "clearInterval")
  /\ Len(words) > 1
  /\ currentIndex = 0
  /\ ~isPlaying

\* C14: a play request while not playing and not halted starts playback; it
\* first resets currentIndex to 0 when currentIndex is the last index, and at
\* any other index it leaves currentIndex unchanged.
C14_PlayResetsOnlyAtEnd ==
  [][(op' = "togglePlay" /\ ~isPlaying /\ ~stoppedAtImage)
       => /\ isPlaying' = TRUE
          /\ currentIndex' = IF currentIndex = Len(words) - 1
                             THEN 0 ELSE currentIndex]_vars

\* C15 (as stated): pause sets isPlaying = false and cancels the timer, and a
\* second pause request right after the first leaves the state as it is: it
\* never restarts playback.
PausedByToggle == op = "togglePlay" /\ ~isPlaying /\ ~stoppedAtImage

C15_PauseIdempotent ==
  [][(PausedByToggle /\ op' = "togglePlay")
       => (isPlaying' = FALSE /\ liveTimers' = 0)]_vars

\* C15 (amended): the pause request is togglePlay while playing; it sets
\* isPlaying = false and cancels the timer, and the same request made again
\* right after it starts playback again.
C15_PauseIsToggle ==
  [][(op' = "togglePlay" /\ ~stoppedAtImage)
       => /\ isPlaying => (isPlaying' = FALSE /\ liveTimers' = 0 /\ ~timerRef')
          /\ PausedByToggle => isPlaying' = TRUE]_vars

C15_Witness ==
  /\ PausedByToggle
  /\ HasEvent(emitted, "clearInterval")
  /\ liveTimers = 0

\* C16: the step that passes the image boundary (it sends the page-advance
\* request) clears stoppedAtImage, sends exactly one page-advance request and
\* closes the overlay; after it isPlaying never becomes true again on the
\* sequence that contained the boundary.
PassesBoundary == HasEvent(emitted', "stopAtImage") /\ HasEvent(emitted', "next")

C16_ContinueLeavesBoundary ==
  /\ [][PassesBoundary
          => /\ stoppedAtImage' = FALSE
             /\ Cardinality({i \in 1..Len(emitted') : emitted'[i].ev = "next"}) = 1
             /\ isOpen' = FALSE]_vars
  /\ [](haltedLoad => ~isPlaying)

\* C17: reaching the image boundary only pauses: the halting tick leaves the
\* overlay open in the halted state, on the same page, and sends no
\* page-advance request.
C17_HaltOnlyPauses ==
  [][(op' = "tick" /\ ~stoppedAtImage /\ stoppedAtImage')
       => /\ isOpen' = TRUE
          /\ page' = page
          /\ ~HasEvent(emitted', "next")]_vars

\* C18: while the timer is armed its delay for the word at currentIndex is
\* round(60000 / wpm) times the first matching factor: 2.5 when the word ends
\* in . ? or !, 1.5 when it ends in , ; or :, 1.2 when it has 8 or more
\* characters, 1.0 otherwise (at 300 WPM: 'Hello.' 500, 'wonderful' 240,
\* 'cat' 200).
FactorTenths(t) ==
  IF t[Len(t)] \in {".", "?", "!"} THEN 25
  ELSE IF t[Len(t)] \in {",", ";", ":"} THEN 15
  ELSE IF Len(t) >= 8 THEN 12
  ELSE 10

WeightedDelay(t, w) == (((120000 + w) \div (2 * w)) * FactorTenths(t) + 5) \div 10

C18_DelayWeighsWord ==
  (liveTimers > 0 /\ currentIndex >= 0 /\ currentIndex < Len(words))
    => timerDelay = WeightedDelay(WordText(words[currentIndex + 1]), wpm)

\* C19: the delay is a positive whole number of milliseconds for every
\* integer wpm in [100, 1500], and it never grows when wpm grows.
C19_DelayPositiveMonotone ==
  [][op' = "getInterval"
       => /\ timerDelay' \in Nat \ {0}
          /\ (timerDelay > 0 /\ wpm' > wpm) => timerDelay' <= timerDelay]_vars

C19_Witness ==
  /\ op = "getInterval"
  /\ wpm = TrainingWpmMax
  /\ timerDelay = 40

\* C20 (as stated): a WPM change during playback changes neither currentIndex
\* nor isPlaying and leaves the timer running for the displayed word as it
\* is; the new rate applies from the next word on.
WpmChangedWhilePlaying ==
  op' \in {"increaseWpm", "decreaseWpm"} /\ liveTimers > 0 /\ timerRef

C20_WpmChangeDeferred ==
  [][WpmChangedWhilePlaying
       => /\ currentIndex' = currentIndex
          /\ isPlaying' = isPlaying
          /\ timerDelay' = timerDelay
          /\ ~HasEvent(emitted', "clearInterval")]_vars

\* C20 (amended): a WPM change during playback changes neither currentIndex
\* nor isPlaying; when it changes the interval, the running interval is
\* cancelled and a new one is set with round(60000 / wpm) of the new rate, so
\* the new rate applies at once, to the word being displayed.
C20_WpmChangeRearms ==
  [][WpmChangedWhilePlaying
       => /\ currentIndex' = currentIndex
          /\ isPlaying' = isPlaying
          /\ timerRef'
          /\ timerDelay' = getInterval(wpm')
          /\ getInterval(wpm') # getInterval(wpm)
               => /\ Len(emitted') = 2
                  /\ emitted'[1].ev = "clearInterval"
                  /\ emitted'[2].ev = "setInterval"]_vars

C20_Witness ==
  /\ op = "increaseWpm"
  /\ isPlaying
  /\ wpm = DefaultWpm + WpmStep
  /\ timerDelay = getInterval(DefaultWpm + WpmStep)
  /\ HasEvent(emitted, "setInterval")

\* C21: in every reachable state 100 <= wpm <= 1500, for the overlay's wpm
\* and for the stored Reading Speed: every WPM change (overlay decrease and
\* increase, settings slider) yields a value within that range.
C21_WpmInRange ==
  /\ WpmMin <= wpm /\ wpm <= TrainingWpmMax
  /\ WpmMin <= rsvpSpeed /\ rsvpSpeed <= TrainingWpmMax

C21_Witness ==
  /\ op = "decreaseWpm"
  /\ wpm = WpmMin
  /\ rsvpSpeed = WpmMin

\* C22: while playback is active and training mode is enabled, every ten
\* seconds that pass raise wpm by 10, up to the ceiling 1500.
C22_TrainingAccelerates ==
  [][(op' = "tenSeconds" /\ isOpen /\ isPlaying /\ trainingMode)
       => wpm' = Min(TrainingWpmMax, wpm + TrainingStep)]_vars

UsesRange(p) == Len(CfiWalk(p).wordList) > 0

InScope(p, c, i) ==
  IF UsesRange(p)
  THEN c = 1 /\ Book[p].range[1] <= i /\ i <= Book[p].range[2]
  ELSE i \in ViewportScope(p, c)

ScopedImages(p) ==
  {ci \in UNION {{<<c, i>> : i \in 1..Len(Book[p].contents[c])} :
                    c \in 1..Len(Book[p].contents)} :
     Book[p].contents[ci[1]][ci[2]].tag = "img" /\ InScope(p, ci[1], ci[2])}

AfterImage(w) ==
  \E ci \in ScopedImages(w[1]) :
     ci[1] < w[2] \/ (ci[1] = w[2] /\ ci[2] < w[3])

C24_ImageEndsSequence ==
  (error = "" /\ Len(words) > 0 /\ ScopedImages(words[1][1]) # {})
    => /\ imageStopIndex = Len(words)
       /\ \A k \in 1..Len(words) : ~AfterImage(words[k])

\* C25: when the CFI range cannot be used (unresolvable markers, markers in
\* different documents, an exception while the range is built) extraction
\* gives exactly what the viewport scan gives: its words and references
\* alone, and no error other than the scan's own.
RangeFails == Book[page].rangeFault \in {"unresolved", "crossDocument", "throws"}

C25_FallsBackToScan ==
  (ExtractionRan /\ rendition /\ RangeFails)
    => LET a == ScanContents(page, 1, EmptyAcc) IN
       IF a.thrown
       THEN error = "Failed to extract text from page"
       ELSE IF Len(a.wordList) = 0
       THEN error = "No readable text found on this page"
       ELSE /\ error = ""
            /\ words = a.wordList
            /\ wordElementsRef = a.refs

C25_Witness ==
  /\ op = "open"
  /\ RangeFails
  /\ error = ""
  /\ Len(words) = 3
  /\ words = ScanContents(page, 1, EmptyAcc).wordList

C27_TokensClean ==
  (probe.fn = "pushWord" /\ probe.done)
    => /\ \A k \in 1..Len(probe.out) :
            /\ Len(probe.out[k]) > 0
            /\ \A i \in 1..Len(probe.out[k]) :
                  probe.out[k][i] \in WordChars \cup PunctChars
       /\ (\A i \in 1..Len(probe.word) :
              probe.word[i] \notin WordChars \cup PunctChars)
            => probe.out = <<>>

C27_Witness ==
  /\ probe.fn = "pushWord"
  /\ probe.done
  /\ probe.word = <<"a", "*", ".">>
  /\ probe.out = << <<"a", ".">> >>

\* C28: every close (close button or Escape) with a loaded sequence emits the
\* closed-at-position event with the source reference of the word at
\* currentIndex of the sequence on display.
C28_CloseReportsPosition ==
  (op = "close" /\ Len(words) > 0)
    => /\ 0 <= currentIndex /\ currentIndex < Len(words)
       /\ \E i \in 1..Len(emitted) :
             /\ emitted[i].ev = "closeWithPosition"
             /\ emitted[i].ref.word = words[currentIndex + 1]

\* C29: while the overlay is open, the loaded sequence is the one of the page
\* the renderer displays, never that of a page displayed before.
C29_SequenceOfCurrentPage ==
  (isOpen /\ Len(words) > 0)
    => \A k \in 1..Len(words) : words[k][1] = page

\* C30: entering RSVP mode auto-plays: after the overlay was opened and
\* extraction succeeded, isPlaying is true and the timer is armed without any
\* play command.
C30_AutoPlayOnEntry ==
  (op = "open" /\ error = "" /\ Len(words) > 0)
    => (isPlaying /\ liveTimers > 0)

\* C31: in every reachable state with a stop index defined,
\* currentIndex <= stopIndex - 1: no sequence of ticks, skips, slider seeks
\* or replays moves the displayed word past the image boundary.
C31_IndexBeforeStop ==
  StopDefined => currentIndex <= imageStopIndex - 1

\* C32: the word list and the per-word source-reference list stay parallel:
\* in every reachable state (after failed or retried extractions too) they
\* have the same length and entry i of the reference list records word i.
C32_ListsParallel ==
  /\ Len(wordElementsRef) = Len(words)
  /\ \A i \in 1..Len(words) : RefAt(wordElementsRef, i - 1).word = words[i]

\* C33: liveness: whenever isPlaying is true and no further command is
\* issued, timer ticks keep firing until playback stops by itself, so
\* eventually isPlaying is false with the state halted at the boundary or at
\* the last word; and isPlaying is never true with no timer armed.
PlaybackOver ==
  /\ ~isPlaying
  /\ stoppedAtImage \/ currentIndex = Len(words) - 1

C33_PlaybackRunsOut ==
  /\ [](isPlaying => timerRef)
  /\ isPlaying ~> PlaybackOver

\* C34: pausing (togglePlay invoked while isPlaying is true) leaves
\* currentIndex unchanged at every position, the last index included.
C34_PauseKeepsIndex ==
  [][(op' = "togglePlay" /\ isPlaying) => currentIndex' = currentIndex]_vars

\* C35: while the overlay is open, a key it handles (Space, Escape, the arrow
\* keys, R) is never also handled by the Reader: ArrowLeft / ArrowRight do
\* not turn the page and Escape does not navigate back to the library.
C35_HandledKeysStayInOverlay ==
  (/\ probe.fn = "keydown"
   /\ probe.open
   /\ probe.key \in {"Space", "Escape", "ArrowLeft", "ArrowRight", "ArrowUp",
                     "ArrowDown", "r"})
    => /\ probe.overlay # "none"
       /\ probe.reader = "none"
       /\ ~probe.turned
       /\ ~probe.left

C35_Witness ==
  /\ probe.fn = "keydown"
  /\ probe.open
  /\ probe.key = "ArrowRight"
  /\ op = "skipForward"
  /\ isOpen
  /\ page = 1
  /\ currentIndex = SkipN

\* C36: WPM stays in sync between the overlay and the persisted settings:
\* whenever the overlay is opened its wpm equals settings.rsvpSpeed (also
\* after the speed was changed in the settings panel), and every overlay WPM
\* change is written back to settings.rsvpSpeed.
C36_WpmInSync ==
  /\ [](op = "open" => wpm = rsvpSpeed)
  /\ [][wpm' # wpm => rsvpSpeed' = wpm']_vars

\* C37: Reader page navigation is debounced by a lock: at any time at most
\* one navigation request issued through goNext / goPrev is outstanding (not
\* yet answered by a 'relocated' event), for every interleaving of commands,
\* 'relocated' events and the 300 ms fallback timers.
C37_OneRequestOutstanding ==
  Len(navRequests) <= 1

\* C38: progress bookmarking: after any sequence of relocations, each
\* starting an asynchronous updateBookProgress, once all updates have
\* completed the stored lastRead and progress are those of the most recent
\* relocation.
C38_LastRelocationStored ==
  (progressUpdates = <<>> /\ lastLocationRef # 0)
    => bookRecord = [lastRead |-> lastLocationRef,
                     progress |-> percentage(lastLocationRef)]

\* C39: in paginated mode with a visible range resolvable within one
\* document, every token of the produced sequence comes from a text node
\* that intersects that range; text outside the visible page is never
\* included, even when the range itself contributes zero tokens.
C39_TokensWithinRange ==
  (/\ ExtractionRan
   /\ rendition
   /\ Book[page].flow = "paginated"
   /\ Book[page].rangeFault = "none"
   /\ error = "")
    => \A k \in 1..Len(words) :
          /\ words[k][1] = page
          /\ words[k][2] = 1
          /\ Book[page].range[1] <= words[k][3]
          /\ words[k][3] <= Book[page].range[2]

====
